---- MODULE Spec2Model ----
(***************************************************************************)
(* crlib string.h: the non-owning view (StringRef) and the growable owned  *)
(* string (String), as a state machine over one String object.             *)
(*                                                                         *)
(* Memory is modelled byte by byte.  A buffer is a sequence of bytes whose *)
(* length is the size of the allocation; C index i is TLA+ index i + 1.    *)
(* A C pointer is a record [mem, off]: the allocation it points into and   *)
(* the offset of the pointed-at byte.  Byte 0 is kNullChar.                *)
(***************************************************************************)
EXTENDS Integers, Sequences, FiniteSets, TLC

(* ------------------------------ bounds -------------------------------- *)

\* width of the model's size_t in bits (the arithmetic wraps the same way
\* at 32 and 64 bits; TLC's integers cannot hold those)
SizeBits == 16

\* longest content the small-string specification lets an operation build
MaxLen == 4

\* longest text handed to an operation as an argument
MaxText == 2

\* longest content the long-string specification lets an append build
MaxGrowLen == 40

\* most rows of the pool of buffers that hold a text at one time
MaxWritten == 2

\* most chunks the model lets one split (size_t) emplace
MaxChunks == 6

\* how far from the limit of a row of the UTF-8 table the code points lie
MaxSpread == 4

\* most code points of a text handed to strToUpper
MaxPoints == 2

(* ----------------------------- machine -------------------------------- *)

SizeMod == 2 ^ SizeBits

\* unsigned arithmetic of size_t
Wrap(n) == n % SizeMod

InvalidIndex == SizeMod - 1

kNullChar == 0

\* the non-zero bytes texts are made of
Letters == {1, 2}

Byte == {kNullChar} \cup Letters

\* what the bytes of a fresh allocation may hold: zeros, or something else
Garbage == {kNullChar, 2}

Max(a, b) == IF a > b THEN a ELSE b

Min(a, b) == IF a < b THEN a ELSE b

\* the texts of length at most n
TextsUpTo(n) == UNION {[1..k -> Letters] : k \in 0..n}

Texts == TextsUpTo(MaxText)

(* ----------------------------- pointers ------------------------------- *)

NullPtr == [mem |-> <<>>, off |-> 0]

IsNull(p) == Len(p.mem) = 0

\* a string literal: the text and its terminator
CStr(t) == [mem |-> t \o <<kNullChar>>, off |-> 0]

\* p[i]
Deref(p, i) == p.mem[p.off + i + 1]

\* p + n
PtrAdd(p, n) == [mem |-> p.mem, off |-> p.off + n]

\* whether a scan for the terminator from p leaves the allocation
Unterminated(p) == \A k \in (p.off + 1)..Len(p.mem) : p.mem[k] # kNullChar

RECURSIVE ScanLen(_, _)
ScanLen(p, n) ==
  IF p.off + n + 1 > Len(p.mem) \/ Deref(p, n) = kNullChar THEN n
  ELSE ScanLen(p, n + 1)

\* strlen: the bytes before the first terminator (to the end of the
\* allocation when there is none; what lies beyond is undefined)
strlen(p) == ScanLen(p, 0)

\* memcpy (dst + at, src, n) into the buffer dst
MemCpy(dst, at, src, n) ==
  [i \in 1..Len(dst) |->
     IF at < i /\ i <= at + n THEN Deref(src, i - at - 1) ELSE dst[i]]

(* ------------------------------ StringRef ------------------------------ *)

\* StringRef (const char *): the view ends at the terminator
ViewOf(p) == [chars |-> p, length |-> IF IsNull(p) THEN 0 ELSE strlen(p)]

\* StringRef (const char *, size_t): the view may end before the terminator
ViewOfLen(p, n) == [chars |-> p, length |-> n]

\* StringRef::operator []
ViewAt(v, i) == Deref(v.chars, i)

\* the bytes [0, length) of the view
ViewContent(v) == [i \in 1..v.length |-> ViewAt(v, i - 1)]

\* the views handed to an operation: a literal of at most MaxText bytes,
\* seen whole or cut short of its terminator
Views ==
  UNION {{ViewOfLen(CStr(t), n) : n \in 0..Len(t)} : t \in Texts}

\* the views that end at their terminator
TextViews == {ViewOf(CStr(t)) : t \in Texts}

\* a ^ b on unsigned values
RECURSIVE Xor(_, _)
Xor(a, b) ==
  IF a = 0 THEN b
  ELSE IF b = 0 THEN a
  ELSE ((a + b) % 2) + 2 * Xor(a \div 2, b \div 2)

\* a uint32_t is kept as its two 16-bit halves
U32(hi, lo) == [hi |-> hi, lo |-> lo]

\* fnv1a32: prime = 0x1000193, basis = 0x811c9dc5
prime == U32(256, 403)

basis == U32(33052, 40389)

\* (hash ^ byte) * prime in uint32_t arithmetic
fnv1aStep(hash, byte) ==
  LET lo == Xor(hash.lo, byte)
      low == lo * prime.lo
  IN  U32(((low \div 65536) + hash.hi * prime.lo + lo * prime.hi) % 65536,
          low % 65536)

RECURSIVE fnv1aLoop(_, _)
fnv1aLoop(str, hash) ==
  IF Deref(str, 0) = kNullChar THEN hash
  ELSE fnv1aLoop(PtrAdd(str, 1), fnv1aStep(hash, Deref(str, 0)))

\* StringRef::fnv1a32: the scan runs to the first terminator; one that leaves
\* the allocation is undefined
fnv1a32(str) ==
  IF Unterminated(str) THEN [ub |-> TRUE]
  ELSE [ub |-> FALSE, ret |-> fnv1aLoop(str, basis)]

\* StringRef::hash
hash(v) == fnv1a32(v.chars)

\* StringRef::operator ==
equals(v, rhs) ==
  /\ v.length = rhs.length
  /\ \A i \in 0..(v.length - 1) : ViewAt(v, i) = ViewAt(rhs, i)

\* StringRef::find (char, size_t)
RECURSIVE findChar(_, _, _)
findChar(v, pattern, i) ==
  IF i < v.length
  THEN IF ViewAt(v, i) = pattern THEN i ELSE findChar(v, pattern, i + 1)
  ELSE InvalidIndex

\* the inner loop of find: how far the bytes at i agree with the pattern
RECURSIVE findMatch(_, _, _, _)
findMatch(v, pattern, i, index) ==
  IF index < pattern.length /\ ViewAt(v, index) # kNullChar
  THEN IF ViewAt(v, i + index) # ViewAt(pattern, index) THEN index
       ELSE findMatch(v, pattern, i, index + 1)
  ELSE index

\* the outer loop of find
RECURSIVE findLoop(_, _, _)
findLoop(v, pattern, i) ==
  IF i <= v.length - pattern.length
  THEN IF ViewAt(pattern, findMatch(v, pattern, i, 0)) = kNullChar THEN i
       ELSE findLoop(v, pattern, i + 1)
  ELSE InvalidIndex

\* find that searches from the first byte whatever the start
findFromTheFirstByte(v, pattern, start) ==
  IF pattern.length > v.length \/ start > v.length THEN InvalidIndex
  ELSE findLoop(v, pattern, 0)

\* StringRef::find (StringRef, size_t)
find(v, pattern, start) ==
  IF pattern.length > v.length \/ start > v.length THEN InvalidIndex
  ELSE findLoop(v, pattern, start)

\* StringRef::contains
contains(v, rhs) == find(v, rhs, 0) # InvalidIndex

\* whether p[i] is a byte of the allocation p points into
InAlloc(p, i) == p.off + i + 1 \in 1..Len(p.mem)

\* the loop of rfind (char): for (i = length_; i != 0; i--)
RECURSIVE rfindCharLoop(_, _, _)
rfindCharLoop(v, pattern, i) ==
  IF i # 0
  THEN IF ~InAlloc(v.chars, i) THEN [ub |-> TRUE]
       ELSE IF ViewAt(v, i) = pattern THEN [ub |-> FALSE, ret |-> i]
       ELSE rfindCharLoop(v, pattern, i - 1)
  ELSE [ub |-> FALSE, ret |-> InvalidIndex]

\* StringRef::rfind (char): the value returned, or ub when a byte outside
\* the allocation is read
rfindChar(v, pattern) == rfindCharLoop(v, pattern, v.length)

\* the inner loop of rfind (StringRef): for (j = pattern.length () - 1; j > 0; j--)
RECURSIVE rfindMatch(_, _, _, _)
rfindMatch(v, pattern, i, j) ==
  IF j > 0
  THEN IF ~InAlloc(v.chars, Wrap(i + i)) \/ ~InAlloc(pattern.chars, j) THEN "ub"
       ELSE IF ViewAt(v, Wrap(i + i)) # ViewAt(pattern, j) THEN "differ"
       ELSE rfindMatch(v, pattern, i, j - 1)
  ELSE "match"

\* the outer loop of rfind (StringRef): for (i = length_ - 1; i >= pattern.length (); i--)
RECURSIVE rfindLoop(_, _, _)
rfindLoop(v, pattern, i) ==
  IF i >= pattern.length
  THEN LET match == rfindMatch(v, pattern, i, Wrap(pattern.length - 1))
       IN  IF match = "ub" THEN [ub |-> TRUE]
           ELSE IF match = "match" THEN [ub |-> FALSE, ret |-> i]
           ELSE rfindLoop(v, pattern, Wrap(i - 1))
  ELSE [ub |-> FALSE, ret |-> InvalidIndex]

\* StringRef::rfind (StringRef)
rfind(v, pattern) ==
  IF pattern.length > v.length THEN [ub |-> FALSE, ret |-> InvalidIndex]
  ELSE rfindLoop(v, pattern, Wrap(v.length - 1))

\* the inner loop of findLastOf and findLastNotOf: whether chars_[i] is one
\* of the bytes of the pattern
RECURSIVE findAmong(_, _, _, _)
findAmong(v, pattern, i, j) ==
  IF j < pattern.length
  THEN IF ~InAlloc(v.chars, i) THEN "ub"
       ELSE IF ViewAt(v, i) = ViewAt(pattern, j) THEN "among"
       ELSE findAmong(v, pattern, i, j + 1)
  ELSE "different"

\* the loop of findLastOf: for (i = length_ - 1; i > 0; i--)
RECURSIVE findLastOfLoop(_, _, _)
findLastOfLoop(v, pattern, i) ==
  IF i > 0
  THEN LET among == findAmong(v, pattern, i, 0)
       IN  IF among = "ub" THEN [ub |-> TRUE]
           ELSE IF among = "among" THEN [ub |-> FALSE, ret |-> i]
           ELSE findLastOfLoop(v, pattern, i - 1)
  ELSE [ub |-> FALSE, ret |-> InvalidIndex]

\* StringRef::findLastOf (with an empty pattern no iteration reads a byte or
\* returns, whatever i the loop starts from)
findLastOf(v, pattern) ==
  IF pattern.length = 0 THEN [ub |-> FALSE, ret |-> InvalidIndex]
  ELSE findLastOfLoop(v, pattern, Wrap(v.length - 1))

\* the loop of findLastNotOf: for (i = length_ - 1; i > 0; i--)
RECURSIVE findLastNotOfLoop(_, _, _)
findLastNotOfLoop(v, pattern, i) ==
  IF i > 0
  THEN LET among == findAmong(v, pattern, i, 0)
       IN  IF among = "ub" THEN [ub |-> TRUE]
           ELSE IF among = "different" THEN [ub |-> FALSE, ret |-> i]
           ELSE findLastNotOfLoop(v, pattern, i - 1)
  ELSE [ub |-> FALSE, ret |-> InvalidIndex]

\* StringRef::findLastNotOf
findLastNotOf(v, pattern) == findLastNotOfLoop(v, pattern, Wrap(v.length - 1))

\* StringRef::substr
substr(v, start0, count0) ==
  LET start == Min(start0, v.length)
      count == IF count0 = InvalidIndex THEN v.length ELSE count0
  IN  [chars |-> PtrAdd(v.chars, start), length |-> Min(count, v.length - start)]

\* the loop of countStr: for (i = 0, e = length_ - pattern.length () + 1; i != e; ++i)
RECURSIVE countStrLoop(_, _, _, _, _)
countStrLoop(v, pattern, i, e, count) ==
  IF i # e
  THEN countStrLoop(v, pattern, Wrap(i + 1), e,
                    IF equals(substr(v, i, pattern.length), pattern)
                    THEN count + 1 ELSE count)
  ELSE count

\* StringRef::countStr
countStr(v, pattern) ==
  IF pattern.length > v.length THEN 0
  ELSE countStrLoop(v, pattern, 0, Wrap(v.length - pattern.length + 1), 0)

\* StringRef::split (StringRef): the loop, from (prev, pos) on
RECURSIVE splitLoop(_, _, _, _, _)
splitLoop(v, delim, prev, pos0, tokens) ==
  LET pos == find(v, delim, pos0)
  IN  IF pos # InvalidIndex
      THEN splitLoop(v, delim, Wrap(pos + 1), Wrap(pos + 1),
                     Append(tokens, substr(v, prev, Wrap(pos - prev))))
      ELSE Append(tokens, substr(v, prev, Wrap(pos - prev)))

\* StringRef::split (StringRef)
splitRef(v, delim) == splitLoop(v, delim, 0, 0, <<>>)

(* ------------------------------ String -------------------------------- *)

\* String (): no buffer
EmptyString == [chars |-> <<>>, length |-> 0, capacity |-> 0]

\* the bytes [0, length) of s
Content(s) == [i \in 1..s.length |-> s.chars[i]]

\* String::chars
Chars(s) ==
  IF s.chars # <<>> THEN [mem |-> s.chars, off |-> 0]
  ELSE [mem |-> <<kNullChar, kNullChar>>, off |-> 0]

RECURSIVE GrowLoop(_, _)
GrowLoop(capacity, need) ==
  IF need > capacity THEN GrowLoop(Wrap(capacity + (capacity * 2) \div 3), need)
  ELSE capacity

\* String::getGrowFactor
getGrowFactor(s, length) ==
  LET capacity == IF s.capacity # 0 THEN s.capacity ELSE Max(12, Wrap(length + 1))
  IN  Wrap(GrowLoop(capacity, Wrap(s.length + length))
           + (IF length < 4 THEN 8 ELSE length))

\* String::calcLength
calcLength(str, length) ==
  IF length > 0 THEN length ELSE (IF IsNull(str) THEN 0 ELSE strlen(str))

\* resize that returns early also when the new length equals the capacity
resizeToTheBrim(s, amount, fill) ==
  IF Wrap(s.length + amount) <= s.capacity THEN s
  ELSE LET factor == Wrap(getGrowFactor(s, amount) + s.length)
       IN  [chars |-> [i \in 1..factor |->
                         IF i <= s.length /\ s.chars # <<>> THEN s.chars[i]
                         ELSE IF i = 1 THEN kNullChar ELSE fill],
            length |-> s.length, capacity |-> factor]

\* String::resize; fill is what the bytes of a fresh allocation hold
resize(s, amount, fill) ==
  IF Wrap(s.length + amount) < s.capacity THEN s
  ELSE LET factor == Wrap(getGrowFactor(s, amount) + s.length)
       IN  IF s.chars # <<>>
           THEN [chars |-> [i \in 1..factor |->
                              IF i <= s.length THEN s.chars[i] ELSE fill],
                 length |-> s.length, capacity |-> factor]
           ELSE [chars |-> [i \in 1..factor |->
                              IF i = 1 THEN kNullChar ELSE fill],
                 length |-> s.length, capacity |-> factor]

\* String::assign (const char *, size_t)
assign(s, str, length0, fill) ==
  LET length == calcLength(str, length0)
      r == resize(s, length, fill)
      copied == IF ~IsNull(str) THEN MemCpy(r.chars, 0, str, length)
                ELSE [r.chars EXCEPT ![1] = kNullChar]
  IN  [chars |-> [copied EXCEPT ![length + 1] = kNullChar],
       length |-> length, capacity |-> r.capacity]

\* append that leaves the byte after the new content as it finds it
appendNoTerminator(s, str, length0, fill) ==
  LET length == calcLength(str, length0)
      r == resize(s, length, fill)
  IN  [chars |-> MemCpy(r.chars, s.length, str, length),
       length |-> Wrap(s.length + length), capacity |-> r.capacity]

\* String::append (const char *, size_t)
append(s, str, length0, fill) ==
  LET length == calcLength(str, length0)
      r == resize(s, length, fill)
      copied == MemCpy(r.chars, s.length, str, length)
      newLength == Wrap(s.length + length)
  IN  [chars |-> [copied EXCEPT ![newLength + 1] = kNullChar],
       length |-> newLength, capacity |-> r.capacity]

\* String::str
str(s) == [chars |-> [mem |-> s.chars, off |-> 0], length |-> s.length]

\* String (StringRef)
StringOfRef(v, fill) == assign(EmptyString, v.chars, v.length, fill)

\* String (const String &)
StringCopy(s, fill) == assign(EmptyString, Chars(s), 0, fill)

\* String (StringRef) measures an empty view with strlen: whether that scan
\* leaves the allocation the view points into
StringOfRefOverruns(v) ==
  v.length = 0 /\ ~IsNull(v.chars) /\ Unterminated(v.chars)

\* String::substr: str ().substr (start, count), the view returned turned
\* into a String by String (StringRef); ub when that constructor measures an
\* empty view past the end of the buffer
StringSubstr(s, start, count, fill) ==
  LET v == substr(str(s), start, count)
  IN  IF StringOfRefOverruns(v) THEN [ub |-> TRUE]
      ELSE [ub |-> FALSE, s |-> StringOfRef(v, fill)]

\* the loop of ltrim: the first index whose byte is not among the
\* characters, length_ when there is none
RECURSIVE ltrimBegin(_, _, _)
ltrimBegin(s, characters, i) ==
  IF i < s.length
  THEN IF findChar(characters, s.chars[i + 1], 0) = InvalidIndex THEN i
       ELSE ltrimBegin(s, characters, i + 1)
  ELSE s.length

\* String::ltrim; operator = (String &&) hands the buffer of the String
\* substr returns to *this
ltrim(s, characters, fill) ==
  LET begin == ltrimBegin(s, characters, 0)
  IN  StringSubstr(s, begin, s.length - begin, fill)

\* the loop of rtrim: the index behind the last byte that is not among the
\* characters, 0 when there is none
RECURSIVE rtrimEnd(_, _, _)
rtrimEnd(s, characters, i) ==
  IF i > 0
  THEN IF findChar(characters, s.chars[i], 0) = InvalidIndex THEN i
       ELSE rtrimEnd(s, characters, i - 1)
  ELSE 0

\* String::rtrim
rtrim(s, characters, fill) ==
  StringSubstr(s, 0, rtrimEnd(s, characters, s.length), fill)

\* String::trim: ltrim (characters).rtrim (characters)
trim(s, characters, fill) ==
  LET l == ltrim(s, characters, fill)
  IN  IF l.ub THEN l ELSE rtrim(l.s, characters, fill)

\* String::at (index) = value, on the buffer
SetAt(chars, index, value) == [chars EXCEPT ![index + 1] = value]

\* the first loop of insert: for (i = length_; i > index; --i)
RECURSIVE insertShift(_, _, _, _)
insertShift(chars, i, index, n) ==
  IF i > index
  THEN insertShift(SetAt(chars, i + n - 1, chars[i]), i - 1, index, n)
  ELSE chars

\* the second loop of insert: for (i = 0; i < str.length (); ++i)
RECURSIVE insertWrite(_, _, _, _)
insertWrite(chars, i, index, v) ==
  IF i < v.length
  THEN insertWrite(SetAt(chars, i + index, ViewAt(v, i)), i + 1, index, v)
  ELSE chars

\* String::insert: the string afterwards and the value returned
insert(s, index, v, fill) ==
  IF v.length = 0 THEN [s |-> s, ret |-> FALSE]
  ELSE IF index >= s.length
  THEN [s |-> append(s, v.chars, v.length, fill), ret |-> TRUE]
  ELSE LET r == resize(s, Wrap(s.length + v.length), fill)
           shifted == insertShift(r.chars, s.length, index, v.length)
           written == insertWrite(shifted, 0, index, v)
       IN  [s |-> [chars |-> written, length |-> Wrap(s.length + v.length),
                   capacity |-> r.capacity],
            ret |-> TRUE]

\* the loop of erase: for (i = index; i < length_; ++i)
RECURSIVE eraseShift(_, _, _, _)
eraseShift(chars, i, length, count) ==
  IF i < length
  THEN eraseShift(SetAt(chars, i, chars[Wrap(i + count) + 1]), i + 1, length, count)
  ELSE chars

\* erase that shrinks the length and moves no byte
eraseNoShift(s, index, count) ==
  IF Wrap(index + count) > s.length THEN [s |-> s, ret |-> FALSE]
  ELSE [s |-> [s EXCEPT !.length = Wrap(s.length - count)], ret |-> TRUE]

\* String::erase: the string afterwards and the value returned
erase(s, index, count) ==
  IF Wrap(index + count) > s.length THEN [s |-> s, ret |-> FALSE]
  ELSE LET length == Wrap(s.length - count)
       IN  [s |-> [chars |-> eraseShift(s.chars, index, length, count),
                   length |-> length, capacity |-> s.capacity],
            ret |-> TRUE]

\* operator + (const String &, const String &)
plus(lhs, rhs, fill) == append(StringCopy(lhs, fill), Chars(rhs), 0, fill)

\* operator += (const String &)
plusAssign(s, rhs, fill) == append(s, Chars(rhs), 0, fill)

\* the loop of join: for (index = start; index < sequence.length (); ++index)
RECURSIVE joinLoop(_, _, _, _, _, _)
joinLoop(sequence, delim, start, index, result, fill) ==
  IF index < Len(sequence)
  THEN LET piece == IF index # start
                    THEN plus(StringOfRef(delim, fill), sequence[index + 1], fill)
                    ELSE sequence[index + 1]
       IN  joinLoop(sequence, delim, start, index + 1,
                    plusAssign(result, piece, fill), fill)
  ELSE result

\* String::join
join(sequence, delim, start, fill) ==
  IF Len(sequence) = 0 THEN assign(EmptyString, CStr(<<>>), 0, fill)
  ELSE IF Len(sequence) = 1 THEN StringCopy(sequence[1], fill)
  ELSE joinLoop(sequence, delim, start, start, EmptyString, fill)

\* String::split (StringRef): str ().split <String> (delim), every view
\* converted by String (StringRef)
split(s, delim, fill) ==
  LET views == splitRef(str(s), delim)
  IN  [k \in 1..Len(views) |-> StringOfRef(views[k], fill)]

\* whether one of those conversions scans past the end of the buffer
splitOverruns(s, delim) ==
  LET views == splitRef(str(s), delim)
  IN  \E k \in 1..Len(views) : StringOfRefOverruns(views[k])

\* a scan position that stays where the needle was found
replaceStay(pos, to) == pos

\* the scan position of replace after a replacement at pos: pos += to.length ()
replaceAdvance(pos, to) == Wrap(pos + to.length)

(* ---------------------------- StringBuffer ----------------------------- *)

\* StringBuffer::StaticBufferSize
StaticBufferSize == 1024

\* StringBuffer::RotationCount
RotationCount == 16

\* the bytes of a row of data_ the model writes down: a text and its
\* terminator; the bytes of the row behind them are never written and stay
\* zero, as initialised
RowBytes == MaxText + 1

\* StringBuffer (): data_[RotationCount + 1][StaticBufferSize + 1] {}, rotate_ = 0
StringBufferNew ==
  [data_ |-> [row \in 0..RotationCount |-> [k \in 1..RowBytes |-> kNullChar]],
   rotate_ |-> 0]

\* cr::clamp
clamp(x, a, b) == Min(Max(x, a), b)

\* chars that wraps the cursor one row late
charsPastTheLastRow(sb) ==
  LET rotate == IF sb.rotate_ + 1 > RotationCount THEN 0 ELSE sb.rotate_ + 1
      result == clamp(rotate, 0, RotationCount)
  IN  [sb |-> [data_ |-> [sb.data_ EXCEPT ![result][1] = kNullChar],
               rotate_ |-> rotate],
       ret |-> result]

\* StringBuffer::chars: the pool afterwards and the row returned
charsOf(sb) ==
  LET rotate == IF sb.rotate_ + 1 >= RotationCount THEN 0 ELSE sb.rotate_ + 1
      result == clamp(rotate, 0, RotationCount)
  IN  [sb |-> [data_ |-> [sb.data_ EXCEPT ![result][1] = kNullChar],
               rotate_ |-> rotate],
       ret |-> result]

\* SNPrintfWrap::exec into the row buffer, the formatted output being text:
\* buffer[0] = 0, then snprintf (buffer, maxSize, ...) writes at most
\* maxSize - 1 bytes of the text and a terminator
exec(sb, buffer, maxSize, text) ==
  LET n == Min(Len(text), maxSize - 1)
  IN  [sb EXCEPT !.data_[buffer] =
         [k \in 1..RowBytes |->
            IF k <= n THEN text[k]
            ELSE IF k = n + 1 THEN kNullChar
            ELSE @[k]]]

(* ------------------------------ Utf8Tools ------------------------------ *)

\* a & b and a | b on unsigned values
RECURSIVE And(_, _)
And(a, b) ==
  IF a = 0 \/ b = 0 THEN 0
  ELSE (a % 2) * (b % 2) + 2 * And(a \div 2, b \div 2)

RECURSIVE Or(_, _)
Or(a, b) ==
  IF a = 0 THEN b
  ELSE IF b = 0 THEN a
  ELSE Max(a % 2, b % 2) + 2 * Or(a \div 2, b \div 2)

\* a >> n
RECURSIVE ShiftRight(_, _)
ShiftRight(a, n) == IF n = 0 THEN a ELSE ShiftRight(a \div 2, n - 1)

Utf8Table(cmask, cval, shift, lmask, lval) ==
  [cmask |-> cmask, cval |-> cval, shift |-> shift, lmask |-> lmask, lval |-> lval]

\* Utf8Tools::buildTable
utfTable_ ==
  <<Utf8Table(128, 0, 0 * 6, 127, 0),
    Utf8Table(224, 192, 1 * 6, 2047, 128),
    Utf8Table(240, 224, 2 * 6, 65535, 2048),
    Utf8Table(248, 240, 3 * 6, 2097151, 65536),
    Utf8Table(252, 248, 4 * 6, 67108863, 2097152),
    Utf8Table(254, 252, 5 * 6, 2147483647, 67108864)>>

\* static_cast <int> (ch) for the byte ch, kept as its low 31 bits (every use
\* of lval masks bit 31 away): a signed char above 0x7f is sign-extended
IntOfChar(ch, signed) ==
  IF signed /\ ch >= 128 THEN 2147483392 + ch ELSE ch

\* (lval << 6) | test on the low 31 bits of lval
ShiftIn(lval, test) == Or((lval % 33554432) * 64, test)

\* the loop of multiByteToWideChar over the rows of the table from row on;
\* pos is how far mbs has been advanced; ret is the value returned and wide
\* what *wide holds afterwards (wide0 when it is not written); ub when a
\* byte behind the end of mbs is read
RECURSIVE multiByteLoop(_, _, _, _, _, _)
multiByteLoop(mbs, wide0, ch, lval, pos, row) ==
  IF row > Len(utfTable_) THEN [ub |-> FALSE, ret |-> -1, wide |-> wide0]
  ELSE LET table == utfTable_[row]
           len == row
       IN  IF And(ch, table.cmask) = table.cval
           THEN LET masked == And(lval, table.lmask)
                IN  IF masked < table.lval
                    THEN [ub |-> FALSE, ret |-> -1, wide |-> wide0]
                    ELSE [ub |-> FALSE, ret |-> len, wide |-> masked]
           ELSE IF pos + 2 > Len(mbs) THEN [ub |-> TRUE]
           ELSE LET test == And(Xor(mbs[pos + 2], 128), 255)
                IN  IF And(test, 192) # 0
                    THEN [ub |-> FALSE, ret |-> -1, wide |-> wide0]
                    ELSE multiByteLoop(mbs, wide0, ch, ShiftIn(lval, test),
                                       pos + 1, row + 1)

\* Utf8Tools::multiByteToWideChar on the bytes mbs; signed is whether char
\* is a signed type
multiByteToWideChar(wide0, mbs, signed) ==
  IF mbs = <<>> THEN [ub |-> TRUE]
  ELSE multiByteLoop(mbs, wide0, mbs[1], IntOfChar(mbs[1], signed), 0, 1)

\* the while loop of wideCharToMultiByte: the bytes after the first
RECURSIVE wideCharTail(_, _)
wideCharTail(lmask, ch) ==
  IF ch > 0
  THEN <<Or(128, And(ShiftRight(lmask, ch - 6), 63))>> \o wideCharTail(lmask, ch - 6)
  ELSE <<>>

\* the bytes wideCharToMultiByte writes when the row is the first to take lmask
wideCharRow(lmask, row) ==
  LET table == utfTable_[row]
  IN  <<Or(table.cval, ShiftRight(lmask, table.shift)) % 256>>
        \o wideCharTail(lmask, table.shift)

\* a loop that passes a row by also when lmask equals its mask
RECURSIVE wideCharLoopStrict(_, _)
wideCharLoopStrict(lmask, row) ==
  IF row > Len(utfTable_) THEN [ret |-> -1, mbs |-> <<>>]
  ELSE IF lmask < utfTable_[row].lmask
       THEN [ret |-> row, mbs |-> wideCharRow(lmask, row)]
       ELSE wideCharLoopStrict(lmask, row + 1)

\* the loop of wideCharToMultiByte over the rows of the table from row on
RECURSIVE wideCharLoop(_, _)
wideCharLoop(lmask, row) ==
  IF row > Len(utfTable_) THEN [ret |-> -1, mbs |-> <<>>]
  ELSE IF lmask <= utfTable_[row].lmask
       THEN [ret |-> row, mbs |-> wideCharRow(lmask, row)]
       ELSE wideCharLoop(lmask, row + 1)

\* Utf8Tools::wideCharToMultiByte into a buffer that is not null: the value
\* returned and the bytes written
wideCharToMultiByte(wide) == wideCharLoop(wide, 1)

\* Utf8Tools::Utf8MaxChars
Utf8MaxChars == 706

\* Utf8Tools::upperTable_, a row being <<from, to>>; the rows are numbered
\* from 0 as in the source
upperTable_ ==
  <<<<97, 65>>, <<98, 66>>, <<99, 67>>, <<100, 68>>, <<101, 69>>, <<102, 70>>, <<103, 71>>, <<104, 72>>,
    <<105, 73>>, <<106, 74>>, <<107, 75>>, <<108, 76>>, <<109, 77>>, <<110, 78>>, <<111, 79>>, <<112, 80>>,
    <<113, 81>>, <<114, 82>>, <<115, 83>>, <<116, 84>>, <<117, 85>>, <<118, 86>>, <<119, 87>>, <<120, 88>>,
    <<121, 89>>, <<122, 90>>, <<224, 192>>, <<225, 193>>, <<226, 194>>, <<227, 195>>, <<228, 196>>, <<229, 197>>,
    <<230, 198>>, <<231, 199>>, <<232, 200>>, <<233, 201>>, <<234, 202>>, <<235, 203>>, <<236, 204>>, <<237, 205>>,
    <<238, 206>>, <<239, 207>>, <<240, 208>>, <<241, 209>>, <<242, 210>>, <<243, 211>>, <<244, 212>>, <<245, 213>>,
    <<246, 214>>, <<248, 216>>, <<249, 217>>, <<250, 218>>, <<251, 219>>, <<252, 220>>, <<253, 221>>, <<254, 222>>,
    <<255, 376>>, <<257, 256>>, <<259, 258>>, <<261, 260>>, <<263, 262>>, <<265, 264>>, <<267, 266>>, <<269, 268>>,
    <<271, 270>>, <<273, 272>>, <<275, 274>>, <<277, 276>>, <<279, 278>>, <<281, 280>>, <<283, 282>>, <<285, 284>>,
    <<287, 286>>, <<289, 288>>, <<291, 290>>, <<293, 292>>, <<295, 294>>, <<297, 296>>, <<299, 298>>, <<301, 300>>,
    <<303, 302>>, <<305, 73>>, <<307, 306>>, <<309, 308>>, <<311, 310>>, <<314, 313>>, <<316, 315>>, <<318, 317>>,
    <<320, 319>>, <<322, 321>>, <<324, 323>>, <<326, 325>>, <<328, 327>>, <<331, 330>>, <<333, 332>>, <<335, 334>>,
    <<337, 336>>, <<339, 338>>, <<341, 340>>, <<343, 342>>, <<345, 344>>, <<347, 346>>, <<349, 348>>, <<351, 350>>,
    <<353, 352>>, <<355, 354>>, <<357, 356>>, <<359, 358>>, <<361, 360>>, <<363, 362>>, <<365, 364>>, <<367, 366>>,
    <<369, 368>>, <<371, 370>>, <<373, 372>>, <<375, 374>>, <<378, 377>>, <<380, 379>>, <<382, 381>>, <<387, 386>>,
    <<389, 388>>, <<392, 391>>, <<396, 395>>, <<402, 401>>, <<405, 502>>, <<409, 408>>, <<414, 544>>, <<417, 416>>,
    <<419, 418>>, <<421, 420>>, <<424, 423>>, <<429, 428>>, <<432, 431>>, <<436, 435>>, <<438, 437>>, <<441, 440>>,
    <<445, 444>>, <<447, 503>>, <<454, 452>>, <<457, 455>>, <<460, 458>>, <<462, 461>>, <<464, 463>>, <<466, 465>>,
    <<468, 467>>, <<470, 469>>, <<472, 471>>, <<474, 473>>, <<476, 475>>, <<477, 398>>, <<479, 478>>, <<481, 480>>,
    <<483, 482>>, <<485, 484>>, <<487, 486>>, <<489, 488>>, <<491, 490>>, <<493, 492>>, <<495, 494>>, <<499, 497>>,
    <<501, 500>>, <<505, 504>>, <<507, 506>>, <<509, 508>>, <<511, 510>>, <<513, 512>>, <<515, 514>>, <<517, 516>>,
    <<519, 518>>, <<521, 520>>, <<523, 522>>, <<525, 524>>, <<527, 526>>, <<529, 528>>, <<531, 530>>, <<533, 532>>,
    <<535, 534>>, <<537, 536>>, <<539, 538>>, <<541, 540>>, <<543, 542>>, <<547, 546>>, <<549, 548>>, <<551, 550>>,
    <<553, 552>>, <<555, 554>>, <<557, 556>>, <<559, 558>>, <<561, 560>>, <<563, 562>>, <<595, 385>>, <<596, 390>>,
    <<598, 393>>, <<599, 394>>, <<601, 399>>, <<603, 400>>, <<608, 403>>, <<611, 404>>, <<616, 407>>, <<617, 406>>,
    <<623, 412>>, <<626, 413>>, <<629, 415>>, <<640, 422>>, <<643, 425>>, <<648, 430>>, <<650, 433>>, <<651, 434>>,
    <<658, 439>>, <<940, 902>>, <<941, 904>>, <<942, 905>>, <<943, 906>>, <<945, 913>>, <<946, 914>>, <<947, 915>>,
    <<948, 916>>, <<949, 917>>, <<950, 918>>, <<951, 919>>, <<952, 920>>, <<953, 837>>, <<954, 922>>, <<955, 923>>,
    <<956, 181>>, <<957, 925>>, <<958, 926>>, <<959, 927>>, <<960, 928>>, <<961, 929>>, <<963, 931>>, <<964, 932>>,
    <<965, 933>>, <<966, 934>>, <<967, 935>>, <<968, 936>>, <<969, 937>>, <<970, 938>>, <<971, 939>>, <<972, 908>>,
    <<973, 910>>, <<974, 911>>, <<985, 984>>, <<987, 986>>, <<989, 988>>, <<991, 990>>, <<993, 992>>, <<995, 994>>,
    <<997, 996>>, <<999, 998>>, <<1001, 1000>>, <<1003, 1002>>, <<1005, 1004>>, <<1007, 1006>>, <<1010, 1017>>, <<1016, 1015>>,
    <<1019, 1018>>, <<1072, 1040>>, <<1073, 1041>>, <<1074, 1042>>, <<1075, 1043>>, <<1076, 1044>>, <<1077, 1045>>, <<1078, 1046>>,
    <<1079, 1047>>, <<1080, 1048>>, <<1081, 1049>>, <<1082, 1050>>, <<1083, 1051>>, <<1084, 1052>>, <<1085, 1053>>, <<1086, 1054>>,
    <<1087, 1055>>, <<1088, 1056>>, <<1089, 1057>>, <<1090, 1058>>, <<1091, 1059>>, <<1092, 1060>>, <<1093, 1061>>, <<1094, 1062>>,
    <<1095, 1063>>, <<1096, 1064>>, <<1097, 1065>>, <<1098, 1066>>, <<1099, 1067>>, <<1100, 1068>>, <<1101, 1069>>, <<1102, 1070>>,
    <<1103, 1071>>, <<1104, 1024>>, <<1105, 1025>>, <<1106, 1026>>, <<1107, 1027>>, <<1108, 1028>>, <<1109, 1029>>, <<1110, 1030>>,
    <<1111, 1031>>, <<1112, 1032>>, <<1113, 1033>>, <<1114, 1034>>, <<1115, 1035>>, <<1116, 1036>>, <<1117, 1037>>, <<1118, 1038>>,
    <<1119, 1039>>, <<1121, 1120>>, <<1123, 1122>>, <<1125, 1124>>, <<1127, 1126>>, <<1129, 1128>>, <<1131, 1130>>, <<1133, 1132>>,
    <<1135, 1134>>, <<1137, 1136>>, <<1139, 1138>>, <<1141, 1140>>, <<1143, 1142>>, <<1145, 1144>>, <<1147, 1146>>, <<1149, 1148>>,
    <<1151, 1150>>, <<1153, 1152>>, <<1163, 1162>>, <<1165, 1164>>, <<1167, 1166>>, <<1169, 1168>>, <<1171, 1170>>, <<1173, 1172>>,
    <<1175, 1174>>, <<1177, 1176>>, <<1179, 1178>>, <<1181, 1180>>, <<1183, 1182>>, <<1185, 1184>>, <<1187, 1186>>, <<1189, 1188>>,
    <<1191, 1190>>, <<1193, 1192>>, <<1195, 1194>>, <<1197, 1196>>, <<1199, 1198>>, <<1201, 1200>>, <<1203, 1202>>, <<1205, 1204>>,
    <<1207, 1206>>, <<1209, 1208>>, <<1211, 1210>>, <<1213, 1212>>, <<1215, 1214>>, <<1218, 1217>>, <<1220, 1219>>, <<1222, 1221>>,
    <<1224, 1223>>, <<1226, 1225>>, <<1228, 1227>>, <<1230, 1229>>, <<1233, 1232>>, <<1235, 1234>>, <<1237, 1236>>, <<1239, 1238>>,
    <<1241, 1240>>, <<1243, 1242>>, <<1245, 1244>>, <<1247, 1246>>, <<1249, 1248>>, <<1251, 1250>>, <<1253, 1252>>, <<1255, 1254>>,
    <<1257, 1256>>, <<1259, 1258>>, <<1261, 1260>>, <<1263, 1262>>, <<1265, 1264>>, <<1267, 1266>>, <<1269, 1268>>, <<1273, 1272>>,
    <<1281, 1280>>, <<1283, 1282>>, <<1285, 1284>>, <<1287, 1286>>, <<1289, 1288>>, <<1291, 1290>>, <<1293, 1292>>, <<1295, 1294>>,
    <<1377, 1329>>, <<1378, 1330>>, <<1379, 1331>>, <<1380, 1332>>, <<1381, 1333>>, <<1382, 1334>>, <<1383, 1335>>, <<1384, 1336>>,
    <<1385, 1337>>, <<1386, 1338>>, <<1387, 1339>>, <<1388, 1340>>, <<1389, 1341>>, <<1390, 1342>>, <<1391, 1343>>, <<1392, 1344>>,
    <<1393, 1345>>, <<1394, 1346>>, <<1395, 1347>>, <<1396, 1348>>, <<1397, 1349>>, <<1398, 1350>>, <<1399, 1351>>, <<1400, 1352>>,
    <<1401, 1353>>, <<1402, 1354>>, <<1403, 1355>>, <<1404, 1356>>, <<1405, 1357>>, <<1406, 1358>>, <<1407, 1359>>, <<1408, 1360>>,
    <<1409, 1361>>, <<1410, 1362>>, <<1411, 1363>>, <<1412, 1364>>, <<1413, 1365>>, <<1414, 1366>>, <<7681, 7680>>, <<7683, 7682>>,
    <<7685, 7684>>, <<7687, 7686>>, <<7689, 7688>>, <<7691, 7690>>, <<7693, 7692>>, <<7695, 7694>>, <<7697, 7696>>, <<7699, 7698>>,
    <<7701, 7700>>, <<7703, 7702>>, <<7705, 7704>>, <<7707, 7706>>, <<7709, 7708>>, <<7711, 7710>>, <<7713, 7712>>, <<7715, 7714>>,
    <<7717, 7716>>, <<7719, 7718>>, <<7721, 7720>>, <<7723, 7722>>, <<7725, 7724>>, <<7727, 7726>>, <<7729, 7728>>, <<7731, 7730>>,
    <<7733, 7732>>, <<7735, 7734>>, <<7737, 7736>>, <<7739, 7738>>, <<7741, 7740>>, <<7743, 7742>>, <<7745, 7744>>, <<7747, 7746>>,
    <<7749, 7748>>, <<7751, 7750>>, <<7753, 7752>>, <<7755, 7754>>, <<7757, 7756>>, <<7759, 7758>>, <<7761, 7760>>, <<7763, 7762>>,
    <<7765, 7764>>, <<7767, 7766>>, <<7769, 7768>>, <<7771, 7770>>, <<7773, 7772>>, <<7775, 7774>>, <<7777, 7776>>, <<7779, 7778>>,
    <<7781, 7780>>, <<7783, 7782>>, <<7785, 7784>>, <<7787, 7786>>, <<7789, 7788>>, <<7791, 7790>>, <<7793, 7792>>, <<7795, 7794>>,
    <<7797, 7796>>, <<7799, 7798>>, <<7801, 7800>>, <<7803, 7802>>, <<7805, 7804>>, <<7807, 7806>>, <<7809, 7808>>, <<7811, 7810>>,
    <<7813, 7812>>, <<7815, 7814>>, <<7817, 7816>>, <<7819, 7818>>, <<7821, 7820>>, <<7823, 7822>>, <<7825, 7824>>, <<7827, 7826>>,
    <<7829, 7828>>, <<7841, 7840>>, <<7843, 7842>>, <<7845, 7844>>, <<7847, 7846>>, <<7849, 7848>>, <<7851, 7850>>, <<7853, 7852>>,
    <<7855, 7854>>, <<7857, 7856>>, <<7859, 7858>>, <<7861, 7860>>, <<7863, 7862>>, <<7865, 7864>>, <<7867, 7866>>, <<7869, 7868>>,
    <<7871, 7870>>, <<7873, 7872>>, <<7875, 7874>>, <<7877, 7876>>, <<7879, 7878>>, <<7881, 7880>>, <<7883, 7882>>, <<7885, 7884>>,
    <<7887, 7886>>, <<7889, 7888>>, <<7891, 7890>>, <<7893, 7892>>, <<7895, 7894>>, <<7897, 7896>>, <<7899, 7898>>, <<7901, 7900>>,
    <<7903, 7902>>, <<7905, 7904>>, <<7907, 7906>>, <<7909, 7908>>, <<7911, 7910>>, <<7913, 7912>>, <<7915, 7914>>, <<7917, 7916>>,
    <<7919, 7918>>, <<7921, 7920>>, <<7923, 7922>>, <<7925, 7924>>, <<7927, 7926>>, <<7929, 7928>>, <<7936, 7944>>, <<7937, 7945>>,
    <<7938, 7946>>, <<7939, 7947>>, <<7940, 7948>>, <<7941, 7949>>, <<7942, 7950>>, <<7943, 7951>>, <<7952, 7960>>, <<7953, 7961>>,
    <<7954, 7962>>, <<7955, 7963>>, <<7956, 7964>>, <<7957, 7965>>, <<7968, 7976>>, <<7969, 7977>>, <<7970, 7978>>, <<7971, 7979>>,
    <<7972, 7980>>, <<7973, 7981>>, <<7974, 7982>>, <<7975, 7983>>, <<7984, 7992>>, <<7985, 7993>>, <<7986, 7994>>, <<7987, 7995>>,
    <<7988, 7996>>, <<7989, 7997>>, <<7990, 7998>>, <<7991, 7999>>, <<8000, 8008>>, <<8001, 8009>>, <<8002, 8010>>, <<8003, 8011>>,
    <<8004, 8012>>, <<8005, 8013>>, <<8017, 8025>>, <<8019, 8027>>, <<8021, 8029>>, <<8023, 8031>>, <<8032, 8040>>, <<8033, 8041>>,
    <<8034, 8042>>, <<8035, 8043>>, <<8036, 8044>>, <<8037, 8045>>, <<8038, 8046>>, <<8039, 8047>>, <<8048, 8122>>, <<8049, 8123>>,
    <<8050, 8136>>, <<8051, 8137>>, <<8052, 8138>>, <<8053, 8139>>, <<8054, 8154>>, <<8055, 8155>>, <<8056, 8184>>, <<8057, 8185>>,
    <<8058, 8170>>, <<8059, 8171>>, <<8060, 8186>>, <<8061, 8187>>, <<8064, 8072>>, <<8065, 8073>>, <<8066, 8074>>, <<8067, 8075>>,
    <<8068, 8076>>, <<8069, 8077>>, <<8070, 8078>>, <<8071, 8079>>, <<8080, 8088>>, <<8081, 8089>>, <<8082, 8090>>, <<8083, 8091>>,
    <<8084, 8092>>, <<8085, 8093>>, <<8086, 8094>>, <<8087, 8095>>, <<8096, 8104>>, <<8097, 8105>>, <<8098, 8106>>, <<8099, 8107>>,
    <<8100, 8108>>, <<8101, 8109>>, <<8102, 8110>>, <<8103, 8111>>, <<8112, 8120>>, <<8113, 8121>>, <<8115, 8124>>, <<8131, 8140>>,
    <<8144, 8152>>, <<8145, 8153>>, <<8160, 8168>>, <<8161, 8169>>, <<8165, 8172>>, <<8179, 8188>>, <<8560, 8544>>, <<8561, 8545>>,
    <<8562, 8546>>, <<8563, 8547>>, <<8564, 8548>>, <<8565, 8549>>, <<8566, 8550>>, <<8567, 8551>>, <<8568, 8552>>, <<8569, 8553>>,
    <<8570, 8554>>, <<8571, 8555>>, <<8572, 8556>>, <<8573, 8557>>, <<8574, 8558>>, <<8575, 8559>>, <<9424, 9398>>, <<9425, 9399>>,
    <<9426, 9400>>, <<9427, 9401>>, <<9428, 9402>>, <<9429, 9403>>, <<9430, 9404>>, <<9431, 9405>>, <<9432, 9406>>, <<9433, 9407>>,
    <<9434, 9408>>, <<9435, 9409>>, <<9436, 9410>>, <<9437, 9411>>, <<9438, 9412>>, <<9439, 9413>>, <<9440, 9414>>, <<9441, 9415>>,
    <<9442, 9416>>, <<9443, 9417>>, <<9444, 9418>>, <<9445, 9419>>, <<9446, 9420>>, <<9447, 9421>>, <<9448, 9422>>, <<9449, 9423>>,
    <<65345, 65313>>, <<65346, 65314>>, <<65347, 65315>>, <<65348, 65316>>, <<65349, 65317>>, <<65350, 65318>>, <<65351, 65319>>, <<65352, 65320>>,
    <<65353, 65321>>, <<65354, 65322>>, <<65355, 65323>>, <<65356, 65324>>, <<65357, 65325>>, <<65358, 65326>>, <<65359, 65327>>, <<65360, 65328>>,
    <<65361, 65329>>, <<65362, 65330>>, <<65363, 65331>>, <<65364, 65332>>, <<65365, 65333>>, <<65366, 65334>>, <<65367, 65335>>, <<65368, 65336>>,
    <<65369, 65337>>, <<65370, 65338>>>>

\* upperTable_[row].from
rowFrom(row) == upperTable_[row + 1][1]

\* upperTable_[row].to
rowTo(row) == upperTable_[row + 1][2]

\* a search that gives up when bottom meets top
RECURSIVE toUpperLoopHalfOpen(_, _, _)
toUpperLoopHalfOpen(ch, bottom, top) ==
  IF bottom < top
  THEN LET mid == (bottom + top) \div 2
           cur == rowFrom(mid)
       IN  IF ch = cur THEN rowTo(mid)
           ELSE IF ch > cur THEN toUpperLoopHalfOpen(ch, mid + 1, top)
           ELSE toUpperLoopHalfOpen(ch, bottom, mid - 1)
  ELSE ch

\* the loop of toUpper: while (bottom <= top)
RECURSIVE toUpperLoop(_, _, _)
toUpperLoop(ch, bottom, top) ==
  IF bottom <= top
  THEN LET mid == (bottom + top) \div 2
           cur == rowFrom(mid)
       IN  IF ch = cur THEN rowTo(mid)
           ELSE IF ch > cur THEN toUpperLoop(ch, mid + 1, top)
           ELSE toUpperLoop(ch, bottom, mid - 1)
  ELSE ch

\* Utf8Tools::toUpper
toUpper(ch) == toUpperLoop(ch, 0, Utf8MaxChars - 1)

\* ::toupper in the "C" locale, the locale of a program that sets none, for
\* a value an unsigned char holds
toupper(ch) == IF ch \in 97..122 THEN ch - 32 ELSE ch

\* String::uppercase; a signed char holding a byte above 0x7f reaches
\* ::toupper as a negative value, for which it is undefined
uppercase(s, signed) ==
  IF signed /\ \E i \in 1..s.length : s.chars[i] >= 128 THEN [ub |-> TRUE]
  ELSE [ub |-> FALSE,
        s |-> [s EXCEPT !.chars = [i \in 1..Len(s.chars) |->
                                     IF i <= s.length THEN toupper(s.chars[i])
                                     ELSE s.chars[i]]]]

\* bytes written into the buffer from its first byte on, as
\* wideCharToMultiByte (ptr, ...) does with ptr = result.chars (); a write
\* behind the end of the buffer is undefined
WriteAtPtr(chars, mbs) ==
  [i \in 1..Len(chars) |-> IF i <= Len(mbs) THEN mbs[i] ELSE chars[i]]

\* the while loop of strToUpper on the String result: ptr stays at
\* result.chars ()
RECURSIVE strToUpperLoop(_, _, _)
strToUpperLoop(result, len, signed) ==
  IF result.chars[1] = kNullChar THEN [ub |-> FALSE, s |-> result]
  ELSE LET decoded == multiByteToWideChar(0, result.chars, signed)
       IN  IF decoded.ub THEN [ub |-> TRUE]
           ELSE LET encoded == wideCharToMultiByte(toUpper(decoded.wide))
                    written == [result EXCEPT !.chars = WriteAtPtr(@, encoded.mbs)]
                    newLen == len + encoded.ret
                IN  IF Len(encoded.mbs) > Len(result.chars) THEN [ub |-> TRUE]
                    ELSE IF newLen >= result.length THEN [ub |-> FALSE, s |-> written]
                    ELSE strToUpperLoop(written, newLen, signed)

\* Utf8Tools::strToUpper
strToUpper(in, signed, fill) ==
  IF StringOfRefOverruns(in) THEN [ub |-> TRUE]
  ELSE LET looped == strToUpperLoop(StringOfRef(in, fill), 0, signed)
       IN  IF looped.ub THEN looped ELSE uppercase(looped.s, signed)

(* ------------------------------- state -------------------------------- *)

\* chars_, length_, capacity_: the String object.
\* frame: the activation of replace while it runs (its arguments, its
\*        locals pos and replaced, and orig, the content at the call).
\* last:  the operation that returned last, the arguments the properties
\*        read, and the value it returned.
\* ub:    an operation has read outside an allocation; what the program
\*        does from there on is undefined and the model follows it no further.
\* strings: the global StringBuffer, the pool of scratch buffers.
VARIABLES chars_, length_, capacity_, frame, last, ub, strings

vars == <<chars_, length_, capacity_, frame, last, ub, strings>>

Self == [chars |-> chars_, length |-> length_, capacity |-> capacity_]

Store(s) ==
  /\ chars_' = s.chars
  /\ length_' = s.length
  /\ capacity_' = s.capacity

Idle == [pc |-> "idle"]

\* the arguments of index type the small-string specification draws
Indexes == 0..(MaxLen + 1)

Init ==
  /\ chars_ = <<>>
  /\ length_ = 0
  /\ capacity_ = 0
  /\ frame = Idle
  /\ last = [op |-> "new"]
  /\ ub = FALSE
  /\ strings = StringBufferNew

\* String (t)
InitText ==
  /\ \E t \in TextsUpTo(MaxLen), fill \in Garbage :
       LET s == assign(EmptyString, CStr(t), 0, fill)
       IN  chars_ = s.chars /\ length_ = s.length /\ capacity_ = s.capacity
  /\ frame = Idle
  /\ last = [op |-> "new"]
  /\ ub = FALSE
  /\ strings = StringBufferNew

\* s.assign (t)
OpAssign(t) ==
  \E fill \in Garbage :
    /\ Store(assign(Self, CStr(t), 0, fill))
    /\ last' = [op |-> "assign"]
    /\ UNCHANGED <<strings, frame, ub>>

\* s.append (x)
OpAppend(x) ==
  \E fill \in Garbage :
    /\ Store(append(Self, CStr(x), 0, fill))
    /\ last' = [op |-> "append", text |-> x]
    /\ UNCHANGED <<strings, frame, ub>>

\* s.insert (index, v)
OpInsert(index, v) ==
  \E fill \in Garbage :
    LET r == insert(Self, index, v, fill)
    IN  /\ Store(r.s)
        /\ last' = [op |-> "insert", ret |-> r.ret]
        /\ UNCHANGED <<strings, frame, ub>>

\* s.erase (index, count)
OpErase(index, count) ==
  LET r == erase(Self, index, count)
  IN  /\ Store(r.s)
      /\ last' = [op |-> "erase", index |-> index, count |-> count, ret |-> r.ret]
      /\ UNCHANGED <<strings, frame, ub>>

\* s.insert (index, v); s.erase (index, v.length ())
OpInsertErase(index, v) ==
  \E fill \in Garbage :
    LET i == insert(Self, index, v, fill)
        e == erase(i.s, index, v.length)
    IN  /\ Store(e.s)
        /\ last' = [op |-> "insert-erase", index |-> index,
                    count |-> v.length, ret |-> e.ret]
        /\ UNCHANGED <<strings, frame, ub>>

\* s.replace (needle, to): entry, up to the loop
ReplaceCall(needle, to) ==
  /\ IF needle.length = 0 \/ to.length = 0
     THEN /\ last' = [op |-> "replace", ret |-> 0]
          /\ frame' = frame
     ELSE /\ last' = [op |-> "call"]
          /\ frame' = [pc |-> "replace", needle |-> needle, to |-> to,
                       pos |-> 0, replaced |-> 0, orig |-> Content(Self)]
  /\ UNCHANGED <<strings, chars_, length_, capacity_, ub>>

\* whether the loop of replace runs once more, and where the needle is
replaceFound == find(str(Self), frame.needle, frame.pos)

replaceContinues == frame.pos < length_ /\ replaceFound # InvalidIndex

\* one iteration of the loop of replace
ReplaceIterate ==
  /\ frame.pc = "replace"
  /\ replaceContinues
  /\ \E fill \in Garbage :
       LET pos == replaceFound
           e == erase(Self, pos, frame.needle.length)
           i == insert(e.s, pos, frame.to, fill)
       IN  /\ Store(i.s)
           /\ frame' = [frame EXCEPT !.pos = replaceAdvance(pos, frame.to),
                                     !.replaced = frame.replaced + 1]
  /\ UNCHANGED <<strings, last, ub>>

\* the loop of replace ends and replace returns
ReplaceReturn ==
  /\ frame.pc = "replace"
  /\ ~replaceContinues
  /\ last' = [op |-> "replace", ret |-> frame.replaced]
  /\ frame' = Idle
  /\ UNCHANGED <<strings, chars_, length_, capacity_, ub>>

\* s.find (pattern, start)
OpFind(pattern, start) ==
  /\ last' = [op |-> "find", pattern |-> pattern, start |-> start,
              ret |-> find(str(Self), pattern, start)]
  /\ UNCHANGED <<strings, chars_, length_, capacity_, frame, ub>>

\* s.split (delim)
OpSplit(delim) ==
  /\ IF splitOverruns(Self, delim)
     THEN ub' = TRUE /\ last' = [op |-> "undefined"]
     ELSE /\ \E fill \in Garbage :
               LET tokens == split(Self, delim, fill)
               IN  last' = [op |-> "split", delim |-> delim,
                            ret |-> [k \in 1..Len(tokens) |-> Content(tokens[k])]]
          /\ ub' = ub
  /\ UNCHANGED <<strings, chars_, length_, capacity_, frame>>

\* String::join (s.split (delim), delim)
OpSplitJoin(delim) ==
  /\ IF splitOverruns(Self, delim)
     THEN ub' = TRUE /\ last' = [op |-> "undefined"]
     ELSE /\ \E fill \in Garbage :
               LET joined == join(split(Self, delim, fill), delim, 0, fill)
               IN  last' = [op |-> "split-join", delim |-> delim,
                            ret |-> Content(joined)]
          /\ ub' = ub
  /\ UNCHANGED <<strings, chars_, length_, capacity_, frame>>

\* what is left of an operation that read outside an allocation
Undefined == [op |-> "undefined"]

\* a query of a view read outside an allocation
QueryUndefined ==
  /\ ub' = TRUE
  /\ last' = Undefined
  /\ UNCHANGED <<strings, chars_, length_, capacity_, frame>>

\* a query of a view returned
QueryReturns ==
  UNCHANGED <<strings, chars_, length_, capacity_, frame, ub>>

\* v.rfind (ch), v the view the caller holds
OpRfindChar(ch) ==
  LET r == rfindChar(frame.v, ch)
  IN  IF r.ub THEN QueryUndefined
      ELSE /\ last' = [op |-> "rfind-char", ch |-> ch, ret |-> r.ret]
           /\ QueryReturns

\* v.rfind (pattern)
OpRfind(pattern) ==
  LET r == rfind(frame.v, pattern)
  IN  IF r.ub THEN QueryUndefined
      ELSE /\ last' = [op |-> "rfind", pattern |-> pattern, ret |-> r.ret]
           /\ QueryReturns

\* strings.chars (); the caller may hold on to the row returned (keep),
\* and a caller that holds one counts the acquisitions made since
OpChars(keep) ==
  LET r == charsOf(strings)
  IN  /\ strings' = r.sb
      /\ last' = [op |-> "chars", ret |-> r.ret]
      /\ frame' = IF frame.pc = "holds" /\ frame.since + 1 < RotationCount
                  THEN [frame EXCEPT !.since = frame.since + 1]
                  ELSE IF frame.pc = "holds"
                  THEN [pc |-> "again", buffer |-> frame.buffer]
                  ELSE IF keep THEN [pc |-> "holds", buffer |-> r.ret, since |-> 0]
                  ELSE Idle
      /\ UNCHANGED <<chars_, length_, capacity_, ub>>

\* the second half of strings.format (fmt, args...): the text is written
\* into the row chars () has just returned
OpFormatWrite(text) ==
  /\ last.op = "chars"
  /\ strings' = exec(strings, last.ret, StaticBufferSize, text)
  /\ last' = [op |-> "format", ret |-> last.ret]
  /\ UNCHANGED <<chars_, length_, capacity_, frame, ub>>

\* v.findLastOf (pattern) for the view v the caller holds; ret is the
\* outcome: the index returned, or a read outside the storage
OpFindLastOf(pattern) ==
  LET r == findLastOf(frame.v, pattern)
  IN  /\ last' = [op |-> "findLastOf", pattern |-> pattern, ret |-> r]
      /\ ub' = r.ub
      /\ UNCHANGED <<strings, chars_, length_, capacity_, frame>>

\* v.findLastNotOf (pattern)
OpFindLastNotOf(pattern) ==
  LET r == findLastNotOf(frame.v, pattern)
  IN  /\ last' = [op |-> "findLastNotOf", pattern |-> pattern, ret |-> r]
      /\ ub' = r.ub
      /\ UNCHANGED <<strings, chars_, length_, capacity_, frame>>

\* v.countStr (pattern) for the view v the caller holds
OpCountStr(pattern) ==
  /\ last' = [op |-> "countStr", pattern |-> pattern,
              ret |-> countStr(frame.v, pattern)]
  /\ QueryReturns

\* v == rhs, v.hash () and rhs.hash () for the view v the caller holds
OpHash(rhs) ==
  LET h == hash(frame.v)
      g == hash(rhs)
  IN  IF h.ub \/ g.ub THEN QueryUndefined
      ELSE /\ last' = [op |-> "hash", rhs |-> rhs, equals |-> equals(frame.v, rhs),
                       hash |-> h.ret, rhsHash |-> g.ret]
           /\ QueryReturns

\* v.split (maxLength) is called for the view v the caller holds: i = 0
SplitCall(maxLength) ==
  /\ frame.pc = "view"
  /\ frame' = [pc |-> "split", v |-> frame.v, maxLength |-> maxLength,
               i |-> 0, tokens |-> <<>>]
  /\ UNCHANGED <<strings, chars_, length_, capacity_, last, ub>>

\* one iteration of the loop of split (size_t): i < length (), the chunk
\* substr (i, maxLength) is emplaced, i += maxLength
SplitIterate ==
  /\ frame.pc = "split"
  /\ frame.i < frame.v.length
  /\ frame' = [frame EXCEPT
                 !.tokens = Append(@, substr(frame.v, frame.i, frame.maxLength)),
                 !.i = Wrap(@ + frame.maxLength)]
  /\ UNCHANGED <<strings, chars_, length_, capacity_, last, ub>>

\* the loop of split (size_t) is left and the tokens are returned
SplitReturn ==
  /\ frame.pc = "split"
  /\ ~(frame.i < frame.v.length)
  /\ last' = [op |-> "split-chunks", maxLength |-> frame.maxLength,
              ret |-> frame.tokens]
  /\ frame' = [pc |-> "view", v |-> frame.v]
  /\ UNCHANGED <<strings, chars_, length_, capacity_, ub>>

\* s.ltrim (characters), s.rtrim (characters) or s.trim (characters), r being
\* its outcome
OpTrimmed(op, characters, r) ==
  IF r.ub
  THEN /\ ub' = TRUE
       /\ last' = Undefined
       /\ UNCHANGED <<strings, chars_, length_, capacity_, frame>>
  ELSE /\ Store(r.s)
       /\ last' = [op |-> op, characters |-> characters]
       /\ UNCHANGED <<strings, frame, ub>>

OpLtrim(characters) ==
  \E fill \in Garbage : OpTrimmed("ltrim", characters, ltrim(Self, characters, fill))

OpRtrim(characters) ==
  \E fill \in Garbage : OpTrimmed("rtrim", characters, rtrim(Self, characters, fill))

OpTrim(characters) ==
  \E fill \in Garbage : OpTrimmed("trim", characters, trim(Self, characters, fill))

\* len = utf8tools.wideCharToMultiByte (mbs, wide) for the code point the
\* caller holds
OpWideCharToMultiByte ==
  /\ frame.pc = "wide"
  /\ LET r == wideCharToMultiByte(frame.wide)
     IN  /\ frame' = [pc |-> "mbs", wide |-> frame.wide, mbs |-> r.mbs]
         /\ last' = [op |-> "wideCharToMultiByte", ret |-> r.ret]
  /\ UNCHANGED <<strings, chars_, length_, capacity_, ub>>

\* wchar_t wide = 0; len = utf8tools.multiByteToWideChar (&wide, mbs) on the
\* bytes written before
OpMultiByteToWideChar(signed) ==
  /\ frame.pc = "mbs"
  /\ LET r == multiByteToWideChar(0, frame.mbs, signed)
     IN  IF r.ub THEN QueryUndefined
         ELSE /\ last' = [op |-> "multiByteToWideChar", ret |-> r.ret,
                          wide |-> r.wide, signed |-> signed]
              /\ QueryReturns

\* upper = utf8tools.toUpper (wide) for the code point the caller holds
OpToUpper ==
  /\ frame.pc = "wide"
  /\ frame' = [pc |-> "upper", wide |-> frame.wide, upper |-> toUpper(frame.wide)]
  /\ last' = [op |-> "toUpper"]
  /\ UNCHANGED <<strings, chars_, length_, capacity_, ub>>

\* again = utf8tools.toUpper (upper)
OpToUpperAgain ==
  /\ frame.pc = "upper"
  /\ frame' = [pc |-> "again", wide |-> frame.wide, upper |-> frame.upper,
               again |-> toUpper(frame.upper)]
  /\ last' = [op |-> "toUpper"]
  /\ UNCHANGED <<strings, chars_, length_, capacity_, ub>>

\* utf8tools.strToUpper (in) for the encoded text the caller holds
OpStrToUpper(signed) ==
  /\ frame.pc = "utf8"
  /\ \E fill \in Garbage :
       LET r == strToUpper(ViewOf(CStr(frame.mbs)), signed, fill)
       IN  IF r.ub THEN QueryUndefined
           ELSE /\ last' = [op |-> "strToUpper", signed |-> signed,
                            ret |-> Content(r.s)]
                /\ QueryReturns

\* whether String (const String &) and operator = (const String &), which
\* measure s.chars () with strlen, scan past the end of the buffer of s
CopyOverruns(s) == Unterminated(Chars(s))

\* String copy (s): the length and the bytes of the copy
OpCopy ==
  IF CopyOverruns(Self) THEN QueryUndefined
  ELSE \E fill \in Garbage :
         LET copy == StringCopy(Self, fill)
         IN  /\ last' = [op |-> "copy", length |-> copy.length,
                         bytes |-> Content(copy)]
             /\ QueryReturns

\* String other (t); other = s: operator = (const String &) is assign (rhs),
\* that is assign (rhs.chars (), 0)
OpCopyAssign(t) ==
  IF CopyOverruns(Self) THEN QueryUndefined
  ELSE \E fill \in Garbage :
         LET other == assign(EmptyString, CStr(t), 0, fill)
             copy == assign(other, Chars(Self), 0, fill)
         IN  /\ last' = [op |-> "copy-assign", length |-> copy.length,
                         bytes |-> Content(copy)]
             /\ QueryReturns

\* the growth a replace can cause: at most one replacement for every
\* needle.length () bytes of content
replaceGrowth(needle, to) ==
  (length_ \div needle.length) * Max(0, to.length - needle.length)

(* ---------------------- the mutating operations ------------------------ *)

Next ==
  \/ \E t \in Texts : OpAssign(t)
  \/ \E x \in Texts : length_ + Len(x) <= MaxLen /\ OpAppend(x)
  \/ \E index \in Indexes, v \in TextViews :
       length_ + v.length <= MaxLen /\ OpInsert(index, v)
  \/ \E index \in Indexes, count \in Indexes : OpErase(index, count)

Spec == Init /\ [][Next]_vars

(* ------------------------- insert, then erase -------------------------- *)

NextInsertErase ==
  \/ \E t \in Texts : OpAssign(t)
  \/ \E count \in 0..1 : OpErase(0, count)
  \/ \E index \in Indexes, v \in TextViews :
       length_ + v.length <= MaxLen /\ OpInsertErase(index, v)

SpecInsertErase == Init /\ [][NextInsertErase]_vars

(* ------------------------------ replace -------------------------------- *)


NextReplace ==
  \/ frame.pc = "idle" /\ \E count \in 0..1 : OpErase(0, count)
  \/ frame.pc = "idle" /\ \E needle \in Views, to \in TextViews :
       /\ needle.length > 0 => length_ + replaceGrowth(needle, to) <= MaxLen
       /\ ReplaceCall(needle, to)
  \/ ReplaceIterate
  \/ ReplaceReturn

SpecReplace == InitText /\ [][NextReplace]_vars

(* ------------------------- the read operations ------------------------- *)

\* String (), or String (t)
InitQuery == Init \/ InitText

NextQuery ==
  \/ ~ub /\ \E count \in 0..1 : OpErase(0, count)
  \/ ~ub /\ \E pattern \in Views, start \in Indexes : OpFind(pattern, start)
  \/ ~ub /\ \E delim \in TextViews : delim.length > 0 /\ OpSplit(delim)
  \/ ~ub /\ \E delim \in TextViews : delim.length > 0 /\ OpSplitJoin(delim)

SpecQuery == InitQuery /\ [][NextQuery]_vars

(* --------------------------- queries of views -------------------------- *)

\* the views queried: a literal of at most MaxLen bytes, seen whole or cut
\* short of its terminator
LongViews ==
  UNION {{ViewOfLen(CStr(t), n) : n \in 0..Len(t)} : t \in TextsUpTo(MaxLen)}

\* a caller holds a view v
InitView ==
  /\ chars_ = <<>>
  /\ length_ = 0
  /\ capacity_ = 0
  /\ \E v \in LongViews : frame = [pc |-> "view", v |-> v]
  /\ last = [op |-> "new"]
  /\ ub = FALSE
  /\ strings = StringBufferNew

NextView ==
  \/ ~ub /\ \E ch \in Letters : OpRfindChar(ch)
  \/ ~ub /\ \E pattern \in Views : OpRfind(pattern)
  \/ ~ub /\ \E rhs \in Views : OpHash(rhs)
  \/ ~ub /\ \E pattern \in Views : OpFindLastOf(pattern)
  \/ ~ub /\ \E pattern \in Views : OpFindLastNotOf(pattern)
  \/ ~ub /\ \E pattern \in Views : OpCountStr(pattern)

SpecView == InitView /\ [][NextView]_vars

(* -------------------------- split into chunks -------------------------- *)

\* the chunk lengths asked for
ChunkLengths == 0..(MaxLen + 1) \cup {InvalidIndex}

NextChunks ==
  \/ \E maxLength \in ChunkLengths : SplitCall(maxLength)
  \/ frame.pc = "split" /\ Len(frame.tokens) < MaxChunks /\ SplitIterate
  \/ SplitReturn

SpecChunks == InitView /\ [][NextChunks]_vars

(* ------------------------------ trimming ------------------------------- *)

NextTrim ==
  \/ ~ub /\ \E characters \in Views : OpLtrim(characters)
  \/ ~ub /\ \E characters \in Views : OpRtrim(characters)
  \/ ~ub /\ \E characters \in Views : OpTrim(characters)

SpecTrim == InitText /\ [][NextTrim]_vars

(* -------------------------------- UTF-8 -------------------------------- *)

\* the largest code points one, two, ... five bytes hold
RowLimits == {utfTable_[row].lmask : row \in 1..(Len(utfTable_) - 1)}

\* the code points encoded: those within MaxSpread of the limit of a row of
\* the table, the first ones, the last ones and U+20AC
CodePoints ==
  (UNION {(limit - MaxSpread)..(limit + MaxSpread) : limit \in RowLimits})
    \cup (0..MaxSpread)
    \cup {2147483647 - k : k \in 0..MaxSpread}
    \cup {8364}

InitUtf8 ==
  /\ chars_ = <<>>
  /\ length_ = 0
  /\ capacity_ = 0
  /\ \E wide \in CodePoints : frame = [pc |-> "wide", wide |-> wide]
  /\ last = [op |-> "new"]
  /\ ub = FALSE
  /\ strings = StringBufferNew

NextUtf8 ==
  \/ OpWideCharToMultiByte
  \/ ~ub /\ \E signed \in BOOLEAN : OpMultiByteToWideChar(signed)

SpecUtf8 == InitUtf8 /\ [][NextUtf8]_vars

(* ----------------------------- case mapping ---------------------------- *)

\* the code points mapped: those within MaxSpread of a code point the table
\* names, on either side of a row
CasePoints ==
  UNION {(upperTable_[row][side] - MaxSpread)..(upperTable_[row][side] + MaxSpread) :
           row \in 1..Utf8MaxChars, side \in 1..2}

InitCase ==
  /\ chars_ = <<>>
  /\ length_ = 0
  /\ capacity_ = 0
  /\ \E wide \in CasePoints : frame = [pc |-> "wide", wide |-> wide]
  /\ last = [op |-> "new"]
  /\ ub = FALSE
  /\ strings = StringBufferNew

NextCase ==
  \/ OpToUpper
  \/ OpToUpperAgain

SpecCase == InitCase /\ [][NextCase]_vars

(* ---------------------------- strToUpper ------------------------------- *)

\* the code points the texts are made of: a, z, A, e acute, alpha, the euro
\* sign; each is encoded in as many bytes as its upper case
UpperPoints == {97, 122, 65, 233, 945, 8364}

\* the UTF-8 bytes of a sequence of code points
RECURSIVE Encoding(_)
Encoding(points) ==
  IF points = <<>> THEN <<>>
  ELSE wideCharToMultiByte(Head(points)).mbs \o Encoding(Tail(points))

\* the texts: at most MaxPoints code points
PointTexts == UNION {[1..n -> UpperPoints] : n \in 0..MaxPoints}

InitUpper ==
  /\ chars_ = <<>>
  /\ length_ = 0
  /\ capacity_ = 0
  /\ \E points \in PointTexts :
       frame = [pc |-> "utf8", points |-> points, mbs |-> Encoding(points)]
  /\ last = [op |-> "new"]
  /\ ub = FALSE
  /\ strings = StringBufferNew

NextUpper == ~ub /\ \E signed \in BOOLEAN : OpStrToUpper(signed)

SpecUpper == InitUpper /\ [][NextUpper]_vars

(* ------------------------------- copies -------------------------------- *)

NextCopy ==
  \/ ~ub /\ \E t \in Texts : OpAssign(t)
  \/ ~ub /\ \E x \in Texts : length_ + Len(x) <= MaxLen /\ OpAppend(x)
  \/ ~ub /\ \E index \in Indexes, v \in TextViews :
       length_ + v.length <= MaxLen /\ OpInsert(index, v)
  \/ ~ub /\ \E index \in Indexes, count \in Indexes : OpErase(index, count)
  \/ ~ub /\ OpCopy
  \/ ~ub /\ \E t \in Texts : OpCopyAssign(t)

SpecCopy == Init /\ [][NextCopy]_vars

(* ------------------------- the pool of buffers ------------------------- *)

\* the text the callers format
PoolTexts == {<<1>>}

\* the rows of the pool that hold a text
Written(sb) == {row \in 0..RotationCount : sb.data_[row][1] # kNullChar}

NextPool ==
  \/ \E keep \in BOOLEAN : OpChars(keep)
  \/ \E text \in PoolTexts :
       Cardinality(Written(strings)) < MaxWritten /\ OpFormatWrite(text)

SpecPool == Init /\ [][NextPool]_vars

(* ------------------------- growth of the buffer ------------------------ *)

\* n bytes c
Run(c, n) == [i \in 1..n |-> c]

\* the lengths of the texts the long-string specification assigns and appends
GrowLens == {0, 1, 5, 6, 13}

\* String (t)
InitGrow ==
  /\ \E n \in GrowLens, fill \in Garbage :
       LET s == assign(EmptyString, CStr(Run(2, n)), 0, fill)
       IN  chars_ = s.chars /\ length_ = s.length /\ capacity_ = s.capacity
  /\ frame = Idle
  /\ last = [op |-> "new"]
  /\ ub = FALSE
  /\ strings = StringBufferNew

NextGrow ==
  \/ last.op = "new" /\ \E count \in 1..2 : OpErase(0, count)
  \/ \E n \in GrowLens : length_ + n <= MaxGrowLen /\ OpAppend(Run(1, n))

SpecGrow == InitGrow /\ [][NextGrow]_vars

(* -------------------- erase over the whole index type ------------------ *)

\* the object describes its buffer: String () has none, any other has
\* length_ < capacity_ bytes of content in a buffer of capacity_ bytes
Sane(s) ==
  \/ s.chars = <<>> /\ s.length = 0 /\ s.capacity = 0
  \/ s.length < s.capacity /\ Len(s.chars) = s.capacity

\* whether every at () of erase (index, count) stays inside the buffer
eraseDefined(s, index, count) ==
  \/ Wrap(index + count) > s.length
  \/ LET length == Wrap(s.length - count)
     IN  \/ index >= length
         \/ /\ length <= Len(s.chars)
            /\ \A i \in index..(length - 1) : Wrap(i + count) < Len(s.chars)

\* arguments of index type, the largest ones included
WideIndexes == Indexes \cup {InvalidIndex - 1, InvalidIndex}

\* s.erase (index, count)
OpEraseWide(index, count) ==
  IF eraseDefined(Self, index, count)
  THEN OpErase(index, count)
  ELSE /\ ub' = TRUE
       /\ last' = [op |-> "undefined"]
       /\ UNCHANGED <<strings, chars_, length_, capacity_, frame>>

\* an operation runs on an object whose length_ is not inside its buffer:
\* it indexes by length_, or copies length_ bytes, out of the allocation
OpUndefined ==
  /\ ~Sane(Self)
  /\ ub' = TRUE
  /\ last' = [op |-> "undefined"]
  /\ UNCHANGED <<strings, chars_, length_, capacity_, frame>>

NextWide ==
  \/ ~ub /\ length_ <= MaxLen
         /\ \E index \in WideIndexes, count \in WideIndexes : OpEraseWide(index, count)
  \/ ~ub /\ OpUndefined

SpecWide == InitQuery /\ [][NextWide]_vars

(* ------------------------------ properties ----------------------------- *)

\* C1: after any sequence of assign, append, insert, erase (and replace,
\* which is an erase and an insert), whenever the buffer is allocated,
\* length < capacity and buffer[length] = 0.
ZeroTerminated ==
  chars_ # <<>> => (length_ < capacity_ /\ chars_[length_ + 1] = kNullChar)

\* C2: the capacity after an append is at least the capacity before it, and
\* strictly greater than the length after it.
AppendGrowsCapacity ==
  [][last'.op = "append" =>
       (capacity_' >= capacity_ /\ capacity_' > length_')]_vars

\* an append has moved the content to a larger buffer: no string is
\* constructed with a capacity above 2 * Max(GrowLens) + 1
AppendReallocated ==
  /\ last.op = "append"
  /\ length_ > 27
  /\ capacity_ > length_

\* C3: after s.append (x) the length is the old length plus the length of
\* x, the bytes [0, old length) are unchanged, the bytes [old length, new
\* length) are x and buffer[new length] = 0; a five-byte content followed by
\* a six-byte append is the eleven bytes of the two.
AppendPostcondition ==
  [][last'.op = "append" =>
       LET x == last'.text
       IN  /\ length_' = length_ + Len(x)
           /\ \A i \in 1..length_ : chars_'[i] = chars_[i]
           /\ \A i \in 1..Len(x) : chars_'[length_ + i] = x[i]
           /\ chars_'[length_' + 1] = kNullChar]_vars

\* String ("22222") after append ("111111")
AppendedSixToFive ==
  /\ last.op = "append"
  /\ last.text = Run(1, 6)
  /\ length_ = 11
  /\ Content(Self) = Run(2, 5) \o Run(1, 6)
  /\ chars_[12] = kNullChar

\* C4: erase (index, count) with a span [index, index + count) that is not
\* inside [0, length), the sum taken in the integers, returns false and
\* leaves the length, the capacity and every byte unchanged.
EraseRejectsOutOfRange ==
  [][(last'.op = "erase" /\ last'.index + last'.count > length_) =>
       (last'.ret = FALSE /\ UNCHANGED <<chars_, length_, capacity_>>)]_vars

\* C5, as stated: for every index, below, at or above the length, and every
\* non-empty text t, insert (index, t) then erase (index, t.length ())
\* leaves the length and the bytes [0, length) as they were.
InsertEraseIdentityAnyIndex ==
  [][(last'.op = "insert-erase" /\ last'.count > 0) =>
       (length_' = length_ /\ Content(Self)' = Content(Self))]_vars

\* C5, for the indexes the identity holds at: for every index not above the
\* length and every non-empty text t, insert (index, t) then
\* erase (index, t.length ()) leaves the length and the bytes [0, length)
\* as they were.
InsertEraseIdentity ==
  [][(last'.op = "insert-erase" /\ last'.count > 0 /\ last'.index <= length_) =>
       (length_' = length_ /\ Content(Self)' = Content(Self))]_vars

\* a text of two bytes was inserted inside the content and erased again
InsertedInsideAndErased ==
  /\ last.op = "insert-erase"
  /\ last.count = 2
  /\ last.index > 0
  /\ last.index < length_
  /\ last.ret = TRUE

\* C6: replace (needle, to) terminates for every non-empty needle and to,
\* a to that contains the needle or is longer than it included: on every
\* iteration the scan position strictly increases and stays within the
\* content, the number of bytes left to scan strictly decreases (so the
\* loop cannot run for ever), and the scan resumes at the end of the text
\* just inserted, never inside it.
ReplaceTerminates ==
  [][(frame.pc = "replace" /\ frame'.pc = "replace") =>
       LET start == frame'.pos - frame.to.length
       IN  /\ frame'.pos > frame.pos
           /\ frame'.pos <= length_'
           /\ length_' - frame'.pos < length_ - frame.pos
           /\ start >= frame.pos
           /\ \A i \in 1..frame.to.length :
                chars_'[start + i] = ViewAt(frame.to, i - 1)]_vars

\* a replacement was made whose text is longer than the needle and
\* contains it
ReplacedByLongerContaining ==
  /\ frame.pc = "replace"
  /\ frame.replaced >= 1
  /\ frame.to.length > frame.needle.length
  /\ contains(frame.to, frame.needle)

\* the content s with every occurrence of n, found left to right and not
\* overlapping an earlier one, substituted by t
RECURSIVE Substituted(_, _, _)
Substituted(s, n, t) ==
  IF Len(s) < Len(n) THEN s
  ELSE IF SubSeq(s, 1, Len(n)) = n
  THEN t \o Substituted(SubSeq(s, Len(n) + 1, Len(s)), n, t)
  ELSE <<Head(s)>> \o Substituted(Tail(s), n, t)

\* the number of those occurrences
RECURSIVE Substitutions(_, _)
Substitutions(s, n) ==
  IF Len(s) < Len(n) THEN 0
  ELSE IF SubSeq(s, 1, Len(n)) = n
  THEN 1 + Substitutions(SubSeq(s, Len(n) + 1, Len(s)), n)
  ELSE Substitutions(Tail(s), n)

\* the view ends at a terminator
Terminated(v) == ViewAt(v, v.length) = kNullChar

\* C7: for a non-empty null-terminated needle and to, replace (needle, to)
\* leaves as content the original content with each left-to-right
\* non-overlapping occurrence of the needle substituted by to, and returns
\* the number of substitutions; "111" with "11" replaced by "2" is "21",
\* one substitution (as "banana", "ana", "X" is "bXna").
ReplaceSubstitutes ==
  [][(frame.pc = "replace" /\ frame'.pc = "idle" /\ Terminated(frame.needle)) =>
       LET n == ViewContent(frame.needle)
           t == ViewContent(frame.to)
       IN  /\ Content(Self)' = Substituted(frame.orig, n, t)
           /\ length_' = Len(Substituted(frame.orig, n, t))
           /\ last'.ret = Substitutions(frame.orig, n)]_vars

\* replace ("11", "2") on "111" is about to return 1 and leave "21"
ReplacedOverlapping ==
  /\ frame.pc = "replace"
  /\ ~replaceContinues
  /\ frame.orig = <<1, 1, 1>>
  /\ frame.needle = ViewOf(CStr(<<1, 1>>))
  /\ frame.to = ViewOf(CStr(<<2>>))
  /\ frame.replaced = 1
  /\ Content(Self) = <<2, 1>>

\* C8: for every non-empty delimiter d, of one byte or several,
\* String::join (s.split (d), d) has the length and the bytes of s.
SplitJoinIdentity ==
  last.op = "split-join" => last.ret = Content(Self)

\* the segments of s between the occurrences of the byte d
RECURSIVE Segments(_, _, _)
Segments(s, d, segment) ==
  IF s = <<>> THEN <<segment>>
  ELSE IF Head(s) = d THEN <<segment>> \o Segments(Tail(s), d, <<>>)
  ELSE Segments(Tail(s), d, Append(segment, Head(s)))

\* C9: for a single-byte delimiter d occurring k times in s, s.split (d)
\* yields the k + 1 segments between the occurrences, in order, an empty
\* segment wherever two delimiters are adjacent or a delimiter is at the
\* start or the end.
SplitYieldsSegments ==
  (last.op = "split" /\ last.delim.length = 1) =>
     last.ret = Segments(Content(Self), ViewAt(last.delim, 0), <<>>)

\* whether the bytes of s from index i on begin with p
MatchesAt(s, p, i) ==
  /\ i + Len(p) <= Len(s)
  /\ \A k \in 1..Len(p) : s[i + k] = p[k]

\* the smallest index at or after start where p occurs in s
SmallestMatch(s, p, start) ==
  LET matches == {i \in start..Len(s) : MatchesAt(s, p, i)}
  IN  IF matches = {} THEN InvalidIndex
      ELSE CHOOSE i \in matches : \A j \in matches : i <= j

\* C10: for every pattern view p, also one shorter than its null-terminated
\* storage, and every start, find (p, start) returns the smallest index
\* i >= start with i + p.length <= v.length and v[i .. i + p.length) equal
\* to p, and InvalidIndex when there is none.
FindSmallestMatch ==
  last.op = "find" =>
     last.ret = SmallestMatch(Content(Self), ViewContent(last.pattern), last.start)

\* the largest index of s, if any, where p occurs
LargestMatch(s, p) ==
  LET matches == {i \in 0..(Len(s) - 1) : MatchesAt(s, p, i)}
  IN  IF matches = {} THEN InvalidIndex
      ELSE CHOOSE i \in matches : \A j \in matches : i >= j

\* C11: rfind, of a byte and of a pattern, returns the rightmost index i in
\* [0, v.length) at which the argument fully matches v from i, index 0
\* included, and InvalidIndex when there is none (an rfind that reads
\* outside the view's storage has no result to compare).
RfindRightmost ==
  /\ last.op = "rfind-char" =>
       last.ret = LargestMatch(ViewContent(frame.v), <<last.ch>>)
  /\ last.op = "rfind" =>
       last.ret = LargestMatch(ViewContent(frame.v), ViewContent(last.pattern))

\* C12: a caller holds the buffer of one acquisition of the pool; each of the
\* next 15 acquisitions returns another buffer and neither it nor the text
\* formatted into its buffer changes a byte of the held one; the 16th
\* acquisition returns the held buffer, its first byte the terminator
PoolRotation ==
  [][frame.pc = "holds" =>
       LET held == frame.buffer
       IN  /\ last'.op = "chars" /\ frame.since + 1 < 16 =>
                /\ last'.ret # held
                /\ strings'.data_[held] = strings.data_[held]
           /\ last'.op = "chars" /\ frame.since + 1 = 16 =>
                /\ last'.ret = held
                /\ strings'.data_[held][1] = kNullChar
           /\ last'.op = "format" /\ frame.since >= 1 =>
                strings'.data_[held] = strings.data_[held]]_vars

\* the 16th acquisition has handed the held buffer out again while another
\* row of the pool holds a text
HeldBufferCameRound ==
  /\ frame.pc = "again"
  /\ last.op = "chars"
  /\ last.ret = frame.buffer
  /\ Written(strings) # {}

\* C13: two views that are equal (same length, same bytes in [0, length))
\* have the same hash, whatever follows them in their storage
EqualViewsHashAlike ==
  last.op = "hash" /\ last.equals => last.hash = last.rhsHash

\* the bytes of a view taken as a set
Bytes(v) == {ViewAt(v, i) : i \in 0..(v.length - 1)}

\* the largest index of the view, if any, whose byte is in S (among) or is
\* not in S
LargestAmong(v, S, among) ==
  LET found == {i \in 0..(v.length - 1) : (ViewAt(v, i) \in S) = among}
  IN  IF found = {} THEN InvalidIndex
      ELSE CHOOSE i \in found : \A j \in found : i >= j

\* C17: findLastOf (S) returns the largest index in [0, length) whose byte is
\* in S, findLastNotOf (S) the largest whose byte is not in S, index 0
\* included, and InvalidIndex when there is none; neither reads a byte outside
\* the view, an empty view included
FindLastLargest ==
  /\ last.op = "findLastOf" =>
       last.ret = [ub |-> FALSE,
                   ret |-> LargestAmong(frame.v, Bytes(last.pattern), TRUE)]
  /\ last.op = "findLastNotOf" =>
       last.ret = [ub |-> FALSE,
                   ret |-> LargestAmong(frame.v, Bytes(last.pattern), FALSE)]

\* the occurrences of p in s from index i on, counted from left to right,
\* the next one looked for behind the one just counted
RECURSIVE NonOverlapping(_, _, _)
NonOverlapping(s, p, i) ==
  IF i + Len(p) > Len(s) THEN 0
  ELSE IF MatchesAt(s, p, i) THEN 1 + NonOverlapping(s, p, i + Len(p))
  ELSE NonOverlapping(s, p, i + 1)

\* C18: for a non-empty pattern countStr returns the number of occurrences
\* of the pattern in the view that do not overlap, counted from left to right
CountStrNonOverlapping ==
  last.op = "countStr" /\ last.pattern.length > 0 =>
    last.ret = NonOverlapping(ViewContent(frame.v), ViewContent(last.pattern), 0)

\* the bytes of the tokens one after another
RECURSIVE Concatenation(_)
Concatenation(tokens) ==
  IF tokens = <<>> THEN <<>>
  ELSE ViewContent(Head(tokens)) \o Concatenation(Tail(tokens))

\* C20: split (maxLength) terminates for every view and every maxLength, 0
\* included: every iteration of its loop brings i nearer to the length of
\* the view; the chunks returned make up the content of the view in order,
\* each of maxLength bytes but the last, which may be shorter and is not empty
SplitChunksTerminates ==
  [][/\ frame.pc = "split" /\ frame'.pc = "split" =>
          frame.v.length - frame'.i < frame.v.length - frame.i
     /\ frame.pc = "split" /\ frame'.pc = "view" =>
          LET tokens == last'.ret
          IN  /\ Concatenation(tokens) = ViewContent(frame.v)
              /\ \A k \in 1..Len(tokens) :
                   /\ tokens[k].length > 0
                   /\ k < Len(tokens) => tokens[k].length = frame.maxLength
                   /\ tokens[k].length <= frame.maxLength]_vars

\* s without its longest prefix of bytes in C
RECURSIVE WithoutPrefix(_, _)
WithoutPrefix(s, C) ==
  IF s # <<>> /\ Head(s) \in C THEN WithoutPrefix(Tail(s), C) ELSE s

\* s without its longest suffix of bytes in C
RECURSIVE WithoutSuffix(_, _)
WithoutSuffix(s, C) ==
  IF s # <<>> /\ s[Len(s)] \in C
  THEN WithoutSuffix(SubSeq(s, 1, Len(s) - 1), C) ELSE s

\* C19: ltrim (C) removes the longest prefix of bytes in C, rtrim (C) the
\* longest suffix, trim (C) both; a string all of whose bytes are in C is
\* left empty by each
TrimRemoves ==
  [][LET C == Bytes(last'.characters)
         old == Content(Self)
         new == Content(Self')
     IN  /\ last'.op = "ltrim" => new = WithoutPrefix(old, C)
         /\ last'.op = "rtrim" => new = WithoutSuffix(old, C)
         /\ last'.op = "trim" => new = WithoutSuffix(WithoutPrefix(old, C), C)
         /\ last'.op \in {"ltrim", "rtrim", "trim"} /\ (\A k \in 1..Len(old) : old[k] \in C)
              => length_' = 0]_vars

\* the position of the first row of the table whose mask is not below c
FirstRow(c) ==
  CHOOSE n \in 1..Len(utfTable_) :
    /\ c <= utfTable_[n].lmask
    /\ \A m \in 1..(n - 1) : c > utfTable_[m].lmask

\* C14: wideCharToMultiByte writes n bytes for the code point c, n the
\* position of the first row whose mask is not below c, and
\* multiByteToWideChar on these bytes returns n and yields c
Utf8RoundTrip ==
  /\ last.op = "wideCharToMultiByte" =>
       /\ last.ret = FirstRow(frame.wide)
       /\ Len(frame.mbs) = last.ret
  /\ last.op = "multiByteToWideChar" =>
       /\ last.ret = FirstRow(frame.wide)
       /\ last.wide = frame.wide
  /\ ~ub

\* the bytes E2 82 AC have been decoded to U+20AC, 3 returned, where char is
\* a signed type
EuroSignDecoded ==
  /\ last.op = "multiByteToWideChar"
  /\ frame.mbs = <<226, 130, 172>>
  /\ last.signed
  /\ last.ret = 3
  /\ last.wide = 8364

\* what the table says of c: the to of the row whose from is c, c itself
\* when no row names it
Mapping(c) ==
  LET rows == {row \in 0..(Utf8MaxChars - 1) : rowFrom(row) = c}
  IN  IF rows = {} THEN c ELSE rowTo(CHOOSE row \in rows : TRUE)

\* C15: the table is strictly ascending by from and toUpper finds the row of
\* every code point that has one; toUpper (toUpper (c)) = toUpper (c)
ToUpperIdempotent ==
  /\ frame.pc = "upper" =>
       /\ \A row \in 1..(Utf8MaxChars - 1) : rowFrom(row - 1) < rowFrom(row)
       /\ frame.upper = Mapping(frame.wide)
  /\ frame.pc = "again" => frame.again = frame.upper

\* a code point with a row of its own has been mapped, and mapped again
MappedTwice ==
  /\ frame.pc = "again"
  /\ frame.upper # frame.wide

\* the code points of a text, each mapped by toUpper
RECURSIVE UpperOfEach(_)
UpperOfEach(points) ==
  IF points = <<>> THEN <<>>
  ELSE <<toUpper(Head(points))>> \o UpperOfEach(Tail(points))

\* C16: on well-formed UTF-8 whose code points are encoded in as many bytes
\* as their upper case, strToUpper returns the encoding of toUpper of every
\* code point of the input in order, those after the first included
StrToUpperMapsEach ==
  last.op = "strToUpper" => last.ret = Encoding(UpperOfEach(frame.points))

\* C21: a String copy-constructed or copy-assigned from s has the length of
\* s and the bytes of s in [0, length), and none of the bytes that lie in
\* the buffer of s behind its length
CopyIsContent ==
  last.op \in {"copy", "copy-assign"} =>
    /\ last.length = length_
    /\ last.bytes = Content(Self)

====
